---- MODULE Spec2Model ----
(***************************************************************************)
(* CFG construction for bril functions (src/rvsdg/cfg.rs).                 *)
(*                                                                         *)
(* to_cfg walks func.instrs once.  The state is the CfgBuilder (graph      *)
(* nodes and edges, entry/exit indices, label_to_block), the locals of     *)
(* to_cfg (block, current, had_branch), the loop position, and the build   *)
(* profile, which decides whether debug_assert! is compiled in.            *)
(***************************************************************************)
EXTENDS Naturals, Sequences, FiniteSets

VARIABLES
    func_instrs,        \* func.instrs, the instruction stream (fixed by Init)
    debug_assertions,   \* cfg!(debug_assertions): is debug_assert! compiled in
    i,                  \* position of the for loop: next item of func_instrs
    builder,            \* CfgBuilder: nodes, edges, entry, exit, label_to_block
    block,              \* to_cfg local: instructions gathered for `current`
    current,            \* to_cfg local: NodeIndex of the block being filled
    had_branch,         \* to_cfg local
    pc                  \* "loop" | "done" (Cfg returned) | "panic" (aborted)

vars == <<func_instrs, debug_assertions, i, builder, block, current, had_branch, pc>>

-----------------------------------------------------------------------------
(* Bounds of the model *)

\* longest instruction stream
MaxLen == 3

\* label strings of the streams; one is spelled like the synthesized exit
Labels == {"L", "Exit"}

\* variable names used as arguments
Args == {"v", "w"}

-----------------------------------------------------------------------------
(* Data model *)

\* Option<Position>
None == <<>>
Some(p) == <<p>>

\* enum BlockName
Entry == [tag |-> "Entry", label |-> ""]
Exit == [tag |-> "Exit", label |-> ""]
NamedCollapsed(label) == IF label = "Exit" THEN Exit ELSE [tag |-> "Named", label |-> label]
Named(label) == [tag |-> "Named", label |-> label]

\* BasicBlock::empty
BasicBlock_empty(name) == [instrs |-> <<>>, name |-> name, pos |-> None]

\* enum BranchOp
Jmp == [tag |-> "Jmp", arg |-> "", val |-> FALSE]
CondFlipped(arg, val) == [tag |-> "Cond", arg |-> arg, val |-> ~val]
Cond(arg, val) == [tag |-> "Cond", arg |-> arg, val |-> val]
RetVal(arg) == [tag |-> "RetVal", arg |-> arg, val |-> FALSE]

\* struct Branch
Branch(op, pos) == [op |-> op, pos |-> pos]

-----------------------------------------------------------------------------
(* Input: bril_rs::Code items.  kind is the arm of the match in to_cfg that *)
(* takes the item.  Every item carries its source position; the position   *)
(* of the k-th item of a stream is Some(k).                                *)

LabelItem(l) == [kind |-> "Label", label |-> l, args |-> <<>>, labels |-> <<>>, pos |-> None]
EffectItem(op, args, labels) == [kind |-> op, label |-> "", args |-> args, labels |-> labels, pos |-> None]
OtherItem == [kind |-> "Other", label |-> "", args |-> <<>>, labels |-> <<>>, pos |-> None]

LabelPairs == {<<a, b>> : a \in Labels, b \in Labels}

WellFormedItems ==
    {OtherItem}
    \cup {LabelItem(l) : l \in Labels}
    \cup {EffectItem("Branch", <<"v">>, ls) : ls \in LabelPairs}
    \cup {EffectItem("Jump", <<>>, <<l>>) : l \in Labels}
    \cup {EffectItem("Return", <<>>, <<>>)}
    \cup {EffectItem("Return", <<a>>, <<>>) : a \in Args}

MalformedItems ==
    { EffectItem("Branch", <<>>, <<"L", "Exit">>),
      EffectItem("Branch", <<"v">>, <<"L">>),
      EffectItem("Jump", <<>>, <<>>),
      EffectItem("Jump", <<>>, <<"L", "Exit">>),
      EffectItem("Return", <<"v", "w">>, <<>>) }

Items == WellFormedItems \cup MalformedItems

IsTerminator(item) == item.kind \in {"Branch", "Jump", "Return"}

\* The loop stops at the first malformed item, so the items after it are
\* never read: streams carry a malformed item only in the last place.
Shapes ==
    UNION { { s \in [1..n -> Items] : \A k \in 1..n : k < n => s[k] \in WellFormedItems }
            : n \in 0..MaxLen }

WithPos(s) == [k \in 1..Len(s) |-> [s[k] EXCEPT !.pos = Some(k)]]

Streams == { WithPos(s) : s \in Shapes }

-----------------------------------------------------------------------------
(* CfgBuilder.  NodeIndex n is the n-th node added (petgraph indices,      *)
(* counted from 1); label_to_block is a function on the labels seen.       *)

CfgBuilder_new ==
    [ nodes |-> <<BasicBlock_empty(Entry), BasicBlock_empty(Exit)>>,
      edges |-> <<>>,
      entry |-> 1,
      exit |-> 2,
      label_to_block |-> [l \in {} |-> 1] ]

\* Graph::add_edge
graph_add_edge(b, src, dst, branch) ==
    [b EXCEPT !.edges = Append(@, [src |-> src, dst |-> dst, weight |-> branch])]

\* neighbors_directed(n, Outgoing).next().is_none()
NoOutgoing(b, n) == \A e \in 1..Len(b.edges) : b.edges[e].src # n

build_never_seals(b) == b
build_always_seals(b) == graph_add_edge(b, b.entry, b.exit, Branch(Jmp, None))
build(b) ==
    IF NoOutgoing(b, b.entry)
    THEN graph_add_edge(b, b.entry, b.exit, Branch(Jmp, None))
    ELSE b

\* get_index: the builder after the call, and the index it returns
get_index_exit_alias(b, label) ==
    IF label = "Exit"
    THEN [builder |-> b, index |-> b.exit]
    ELSE IF label \in DOMAIN b.label_to_block
         THEN [builder |-> b, index |-> b.label_to_block[label]]
         ELSE [ builder |-> [b EXCEPT !.nodes = Append(@, BasicBlock_empty(Named(label))),
                                      !.label_to_block =
                                          [l \in DOMAIN b.label_to_block \cup {label} |->
                                              IF l = label THEN Len(b.nodes) + 1 ELSE b.label_to_block[l]]],
                index |-> Len(b.nodes) + 1 ]
get_index_always_inserts(b, label) ==
    [ builder |-> [b EXCEPT !.nodes = Append(@, BasicBlock_empty(Named(label))),
                            !.label_to_block =
                                [l \in DOMAIN b.label_to_block \cup {label} |->
                                    IF l = label THEN Len(b.nodes) + 1 ELSE b.label_to_block[l]]],
      index |-> Len(b.nodes) + 1 ]
get_index(b, label) ==
    IF label \in DOMAIN b.label_to_block
    THEN [builder |-> b, index |-> b.label_to_block[label]]
    ELSE [ builder |-> [b EXCEPT !.nodes = Append(@, BasicBlock_empty(Named(label))),
                                 !.label_to_block =
                                     [l \in DOMAIN b.label_to_block \cup {label} |->
                                         IF l = label THEN Len(b.nodes) + 1 ELSE b.label_to_block[l]]],
           index |-> Len(b.nodes) + 1 ]

\* the condition of debug_assert! in finish_block
finish_block_assert(b, index) == b.nodes[index].instrs = <<>>

finish_block_drops(b, index, instrs) == b
finish_block(b, index, instrs) == [b EXCEPT !.nodes[index].instrs = instrs]

set_pos_skipped(b, index, pos) == b
set_pos(b, index, pos) == [b EXCEPT !.nodes[index].pos = pos]

add_edge_merging(b, src, dst, branch) ==
    IF \E e \in 1..Len(b.edges) : b.edges[e].src = src /\ b.edges[e].dst = dst
    THEN b
    ELSE graph_add_edge(b, src, dst, branch)
add_edge(b, src, dst, branch) == graph_add_edge(b, src, dst, branch)

-----------------------------------------------------------------------------
(* to_cfg *)

Init ==
    /\ func_instrs \in Streams
    /\ debug_assertions \in BOOLEAN
    /\ i = 1
    /\ builder = CfgBuilder_new
    /\ block = <<>>
    /\ current = CfgBuilder_new.entry
    /\ had_branch = FALSE
    /\ pc = "loop"

InLoop == pc = "loop" /\ i <= Len(func_instrs)

inst == func_instrs[i]

\* `if !had_branch` of the Label arm
FallthroughAlways(hb) == TRUE
FallthroughNever(hb) == FALSE
Fallthrough(hb) == ~hb

\* Code::Label { label, pos }
LabelArm ==
    /\ InLoop
    /\ inst.kind = "Label"
    /\ LET r == get_index(builder, inst.label)
           next_block == r.index
       IN IF debug_assertions /\ ~finish_block_assert(r.builder, current)
          THEN /\ pc' = "panic"
               /\ builder' = r.builder
               /\ block' = <<>>
               /\ UNCHANGED <<func_instrs, debug_assertions, i, current, had_branch>>
          ELSE LET b2 == finish_block(r.builder, current, block)
                   b3 == set_pos(b2, next_block, inst.pos)
                   b4 == IF Fallthrough(had_branch)
                         THEN add_edge(b3, current, next_block, Branch(Jmp, inst.pos))
                         ELSE b3
               IN /\ builder' = b4
                  /\ block' = <<>>
                  /\ current' = next_block
                  /\ had_branch' = FALSE
                  /\ i' = i + 1
                  /\ UNCHANGED <<func_instrs, debug_assertions, pc>>

\* the two assert_eq! of the Branch arm
BranchShapeOk(item) == Len(item.labels) = 2 /\ Len(item.args) = 1

\* op: EffectOps::Branch
BranchArm ==
    /\ InLoop
    /\ inst.kind = "Branch"
    /\ had_branch' = TRUE
    /\ IF ~BranchShapeOk(inst)
       THEN /\ pc' = "panic"
            /\ UNCHANGED <<func_instrs, debug_assertions, i, builder, block, current>>
       ELSE LET r1 == get_index(builder, inst.labels[1])
                true_block == r1.index
                r2 == get_index(r1.builder, inst.labels[2])
                false_block == r2.index
                arg == inst.args[1]
                b3 == add_edge(r2.builder, current, true_block, Branch(Cond(arg, TRUE), inst.pos))
                b4 == add_edge(b3, current, false_block, Branch(Cond(arg, FALSE), inst.pos))
            IN /\ builder' = b4
               /\ i' = i + 1
               /\ UNCHANGED <<func_instrs, debug_assertions, block, current, pc>>

\* the assert_eq! of the Jump arm
JumpShapeAtLeastOne(item) == Len(item.labels) >= 1
JumpShapeOk(item) == Len(item.labels) = 1

\* op: EffectOps::Jump
JumpArm ==
    /\ InLoop
    /\ inst.kind = "Jump"
    /\ had_branch' = TRUE
    /\ IF ~JumpShapeOk(inst)
       THEN /\ pc' = "panic"
            /\ UNCHANGED <<func_instrs, debug_assertions, i, builder, block, current>>
       ELSE LET r == get_index(builder, inst.labels[1])
                dest_block == r.index
            IN /\ builder' = add_edge(r.builder, current, dest_block, Branch(Jmp, inst.pos))
               /\ i' = i + 1
               /\ UNCHANGED <<func_instrs, debug_assertions, block, current, pc>>

\* match args.as_slice(): the BranchOp of the edge to the exit
ReturnOpAlwaysJmp(args) == Jmp
ReturnOp(args) == IF Len(args) = 0 THEN Jmp ELSE RetVal(args[1])

\* op: EffectOps::Return
ReturnArm ==
    /\ InLoop
    /\ inst.kind = "Return"
    /\ had_branch' = TRUE
    /\ IF Len(inst.args) > 1
       THEN /\ pc' = "panic"
            /\ UNCHANGED <<func_instrs, debug_assertions, i, builder, block, current>>
       ELSE /\ builder' = add_edge(builder, current, builder.exit,
                                   Branch(ReturnOp(inst.args), inst.pos))
            /\ i' = i + 1
            /\ UNCHANGED <<func_instrs, debug_assertions, block, current, pc>>

\* Code::Instruction(i) => block.push(i.clone())
OtherArmClearsFlag ==
    /\ InLoop
    /\ inst.kind = "Other"
    /\ block' = Append(block, inst)
    /\ had_branch' = FALSE
    /\ i' = i + 1
    /\ UNCHANGED <<func_instrs, debug_assertions, builder, current, pc>>
OtherArm ==
    /\ InLoop
    /\ inst.kind = "Other"
    /\ block' = Append(block, inst)
    /\ i' = i + 1
    /\ UNCHANGED <<func_instrs, debug_assertions, builder, current, had_branch, pc>>

\* after the loop: builder.finish_block(current, mem::take(&mut block)); builder.build()
Finish ==
    /\ pc = "loop"
    /\ i > Len(func_instrs)
    /\ block' = <<>>
    /\ IF debug_assertions /\ ~finish_block_assert(builder, current)
       THEN /\ pc' = "panic"
            /\ UNCHANGED <<func_instrs, debug_assertions, i, builder, current, had_branch>>
       ELSE /\ builder' = build(finish_block(builder, current, block))
            /\ pc' = "done"
            /\ UNCHANGED <<func_instrs, debug_assertions, i, current, had_branch>>

Next == LabelArm \/ BranchArm \/ JumpArm \/ ReturnArm \/ OtherArm \/ Finish

Spec == Init /\ [][Next]_vars

-----------------------------------------------------------------------------
(* The two scenarios of the specification, checked on every arrangement    *)
(* of their items: each stream takes some of the items of one scenario,    *)
(* each at most once, in any order.                                        *)

\* [jmp .L; .L: ; print x; ret]
JumpToLabelScenario ==
    << EffectItem("Jump", <<>>, <<"L">>),
       LabelItem("L"),
       OtherItem,
       EffectItem("Return", <<>>, <<>>) >>

\* [br v .L .Exit; .L: ; ret v; .Exit: ; ret w]
BranchToTwoReturnsScenario ==
    << EffectItem("Branch", <<"v">>, <<"L", "Exit">>),
       LabelItem("L"),
       EffectItem("Return", <<"v">>, <<>>),
       LabelItem("Exit"),
       EffectItem("Return", <<"w">>, <<>>) >>

Arrangements(S) ==
    UNION { { [k \in 1..n |-> S[p[k]]] :
                p \in { q \in [1..n -> 1..Len(S)] :
                           \A a, b \in 1..n : q[a] = q[b] => a = b } }
            : n \in 0..Len(S) }

ScenarioStreams ==
    { WithPos(s) : s \in Arrangements(JumpToLabelScenario)
                         \cup Arrangements(BranchToTwoReturnsScenario) }

InitScenario ==
    /\ func_instrs \in ScenarioStreams
    /\ debug_assertions \in BOOLEAN
    /\ i = 1
    /\ builder = CfgBuilder_new
    /\ block = <<>>
    /\ current = CfgBuilder_new.entry
    /\ had_branch = FALSE
    /\ pc = "loop"

SpecScenario == InitScenario /\ [][Next]_vars

-----------------------------------------------------------------------------
(* Vocabulary of the properties: the stream as the pass has consumed it    *)

nodes == builder.nodes
edges == builder.edges

Returned == pc = "done"

\* items the loop has completed
Processed == 1..(i - 1)

KindAt(K) == {k \in 1..Len(func_instrs) : func_instrs[k].kind \in K}
Terminators == KindAt({"Branch", "Jump", "Return"})
LabelDecls == KindAt({"Label"})
Returns == KindAt({"Return"})

\* the last label declaration before item k (0: none, the block is Entry)
LastLabelBefore(k) ==
    LET S == {j \in LabelDecls : j < k}
    IN IF S = {} THEN 0 ELSE CHOOSE j \in S : \A m \in S : m <= j

\* a branch, jump or return lies between item k and the label declaration
\* (or start of the stream) before it
TerminatedBefore(k) ==
    \E j \in Terminators : LastLabelBefore(k) < j /\ j < k

\* no branch, jump or return and no label declaration in the stream
PlainStream == Terminators = {} /\ LabelDecls = {}

EdgesInto(n) == {e \in 1..Len(edges) : edges[e].dst = n}
EdgesOutOf(n) == {e \in 1..Len(edges) : edges[e].src = n}
EdgesAt(k) == {e \in 1..Len(edges) : edges[e].weight.pos = <<k>>}

JmpOp == [tag |-> "Jmp", arg |-> "", val |-> FALSE]
SealEdge == [src |-> builder.entry, dst |-> builder.exit,
             weight |-> [op |-> JmpOp, pos |-> <<>>]]

\* the edge a return item is to produce
ReturnEdgeOp(item) ==
    IF Len(item.args) = 1
    THEN [tag |-> "RetVal", arg |-> item.args[1], val |-> FALSE]
    ELSE JmpOp

-----------------------------------------------------------------------------
(* C1 *)

\* C1 as stated: in a returned Cfg the edges into Exit are as many as the
\* return instructions of the stream, and the edge of each return is
\* RetVal{arg} when it carried one argument and Jmp otherwise.
ReturnUnification_C1 ==
    Returned =>
        /\ Cardinality(EdgesInto(builder.exit)) = Cardinality(Returns)
        /\ \A k \in Returns :
              \E e \in EdgesInto(builder.exit) :
                 /\ EdgesAt(k) = {e}
                 /\ edges[e].weight.op = ReturnEdgeOp(func_instrs[k])

\* C1 amended: the edges into Exit are the edges of the return instructions
\* plus the seal edge Entry -> Exit, which build adds exactly when the stream
\* has no label declaration and no branch, jump or return; the edge of each
\* return is RetVal{arg} when it carried one argument and Jmp otherwise.
ReturnUnificationSealed_C1 ==
    Returned =>
        /\ Cardinality(EdgesInto(builder.exit))
              = Cardinality(Returns) + (IF PlainStream THEN 1 ELSE 0)
        /\ \A k \in Returns :
              \E e \in EdgesInto(builder.exit) :
                 /\ EdgesAt(k) = {e}
                 /\ edges[e].weight.op = ReturnEdgeOp(func_instrs[k])
        /\ PlainStream => edges = <<SealEdge>>

ReturnUnification_C1_Witness ==
    /\ Returned
    /\ \E j, k \in Returns :
          /\ j < k
          /\ Len(func_instrs[j].args) = 1
          /\ Len(func_instrs[k].args) = 0

-----------------------------------------------------------------------------
(* C2 *)

\* the edges after a label declaration that inserted its fallthrough edge
WithFallthrough ==
    Append(edges, [src |-> current,
                   dst |-> builder'.label_to_block[inst.label],
                   weight |-> [op |-> JmpOp, pos |-> inst.pos]])

\* C2 as stated: a label declaration adds the implicit Jmp edge from the
\* current block to the label's block if and only if the item right before
\* the declaration is not a branch, jump or return.
FallthroughInsertion_C2 ==
    [][(LabelArm /\ pc' = "loop") =>
         IF i > 1 /\ IsTerminator(func_instrs[i - 1])
         THEN builder'.edges = edges
         ELSE builder'.edges = WithFallthrough]_vars

\* C2 amended: a label declaration adds the implicit Jmp edge from the
\* current block A to the label's block if and only if no branch, jump or
\* return was processed since the cursor moved onto A (since the label
\* declaration before it, or the start of the stream); ordinary instructions
\* after a branch, jump or return do not bring the fallthrough back.
FallthroughSinceCursorMoved_C2 ==
    [][(LabelArm /\ pc' = "loop") =>
         IF TerminatedBefore(i)
         THEN builder'.edges = edges
         ELSE builder'.edges = WithFallthrough]_vars

FallthroughInsertion_C2_Witness ==
    /\ pc = "loop"
    /\ \E k \in Processed :
          /\ k >= 3
          /\ func_instrs[k].kind = "Label"
          /\ func_instrs[k - 1].kind = "Other"
          /\ IsTerminator(func_instrs[k - 2])
          /\ EdgesAt(k) = {}

-----------------------------------------------------------------------------
(* C3 *)

\* the outgoing edges of node n, in the order they were added
OutSeq(n) == SelectSeq(edges, LAMBDA e : e.src = n)

\* the edges of one terminating construct: the one edge of a jump, a return,
\* a fallthrough or the seal, or the Cond pair of one branch
OneConstruct(es) ==
    \/ /\ Len(es) = 1
       /\ es[1].weight.op.tag \in {"Jmp", "RetVal"}
    \/ /\ Len(es) = 2
       /\ es[1].weight.op.tag = "Cond" /\ es[2].weight.op.tag = "Cond"
       /\ es[1].weight.op.arg = es[2].weight.op.arg
       /\ es[1].weight.op.val /\ ~es[2].weight.op.val
       /\ es[1].weight.pos = es[2].weight.pos

\* C3 as stated: in a returned Cfg the outgoing edges of every block other
\* than Exit are exactly the edges of one terminating construct.
SingleTerminatorBlocks_C3 ==
    Returned =>
        \A n \in 1..Len(nodes) : n # builder.exit => OneConstruct(OutSeq(n))

-----------------------------------------------------------------------------
(* C4 *)

\* the pass is about to call finish_block(current, ..): in the Label arm or
\* after the loop
AtFinishBlock ==
    /\ pc = "loop"
    /\ \/ i > Len(func_instrs)
       \/ func_instrs[i].kind = "Label"

\* C4 as stated: every call of finish_block finds the instruction list of
\* its target node empty, so the debug assertion never fails and no
\* committed list is overwritten.
SingleAssignmentCommit_C4 ==
    AtFinishBlock => nodes[current].instrs = <<>>

-----------------------------------------------------------------------------
(* C5 *)

RECURSIVE ReachFrom(_)
ReachFrom(S) ==
    LET T == S \cup {edges[e].dst : e \in {x \in 1..Len(edges) : edges[x].src \in S}}
    IN IF T = S THEN S ELSE ReachFrom(T)

\* the nodes reachable from Entry by following edges
Reach == ReachFrom({builder.entry})

NamedNodes == {n \in 1..Len(nodes) : nodes[n].name.tag = "Named"}

\* the labels that branches and jumps of the stream target
TargetedLabels ==
    UNION { {func_instrs[k].labels[j] : j \in 1..Len(func_instrs[k].labels)}
            : k \in KindAt({"Branch", "Jump"}) }

\* every label is declared while no branch, jump or return precedes it in
\* the block before it, so that every declaration gets its fallthrough edge
NoSuppressedFallthrough == \A k \in LabelDecls : ~TerminatedBefore(k)

\* C5 as stated: in a returned Cfg every node is reachable from Entry.
Reachability_C5 ==
    Returned => \A n \in 1..Len(nodes) : n \in Reach

\* C5 amended: in a returned Cfg every Named block that a branch or jump
\* targets has an incoming edge; and when no label declaration follows a
\* branch, jump or return of the block before it, every Named block is
\* reachable from Entry, and Exit is reachable from Entry exactly when the
\* stream has a return or has neither label nor branch, jump or return.
ReachabilityOfLiveBlocks_C5 ==
    Returned =>
        /\ \A n \in NamedNodes :
              nodes[n].name.label \in TargetedLabels => EdgesInto(n) # {}
        /\ NoSuppressedFallthrough =>
              /\ \A n \in NamedNodes : n \in Reach
              /\ builder.exit \in Reach <=> (Returns # {} \/ PlainStream)

Reachability_C5_Witness ==
    /\ Returned
    /\ NoSuppressedFallthrough
    /\ LabelDecls # {}
    /\ KindAt({"Branch", "Jump"}) # {}
    /\ Cardinality(NamedNodes) = 2
    /\ builder.exit \notin Reach

-----------------------------------------------------------------------------
(* C6 *)

Sealed == \E e \in 1..Len(edges) : edges[e] = SealEdge

\* C6 as stated: when the stream has no branch, jump or return, labels or
\* not, the returned Cfg has the synthesized Jmp edge Entry -> Exit.
SealOnNoControlTransfer_C6 ==
    (Returned /\ Terminators = {}) => Sealed

\* C6 amended: when the stream has no branch, jump or return, the returned
\* Cfg has the synthesized Jmp edge Entry -> Exit if and only if the stream
\* declares no label either; a label declaration gives Entry its fallthrough
\* edge and no edge to Exit is synthesized.
SealOnPlainStream_C6 ==
    (Returned /\ Terminators = {}) => (Sealed <=> LabelDecls = {})

SealOnNoControlTransfer_C6_Witness ==
    /\ Returned
    /\ Terminators = {}
    /\ LabelDecls # {}
    /\ KindAt({"Other"}) # {}
    /\ ~Sealed

-----------------------------------------------------------------------------
(* C7 *)

\* C7: a stream of ordinary instructions only (possibly none) yields exactly
\* the nodes Entry and Exit and exactly one edge, Jmp from Entry to Exit.
EmptyBodySealing_C7 ==
    (Returned /\ PlainStream) =>
        /\ Len(nodes) = 2
        /\ nodes[builder.entry].name.tag = "Entry"
        /\ nodes[builder.exit].name.tag = "Exit"
        /\ Len(edges) = 1
        /\ edges[1].src = builder.entry
        /\ edges[1].dst = builder.exit
        /\ edges[1].weight.op.tag = "Jmp"

EmptyBodySealing_C7_Witness ==
    /\ Returned
    /\ PlainStream
    /\ Len(func_instrs) = MaxLen
    /\ Len(edges) = 1

-----------------------------------------------------------------------------
(* C8 *)

\* C8: in every state of the construction and in the returned Cfg exactly
\* one node is named Entry and exactly one Exit, cfg.entry and cfg.exit are
\* those two nodes, and a label spelled "Exit" names a Named node.
SingleEntryExit_C8 ==
    /\ {n \in 1..Len(nodes) : nodes[n].name.tag = "Entry"} = {builder.entry}
    /\ {n \in 1..Len(nodes) : nodes[n].name.tag = "Exit"} = {builder.exit}
    /\ builder.entry # builder.exit
    /\ \A l \in DOMAIN builder.label_to_block :
          nodes[builder.label_to_block[l]].name.tag = "Named"

SingleEntryExit_C8_Witness ==
    /\ Returned
    /\ \E n \in NamedNodes : nodes[n].name.label = "Exit"
    /\ EdgesInto(builder.exit) # {}

-----------------------------------------------------------------------------
(* C9 *)

\* the label strings that the items completed so far declare or target
LabelsSeen ==
    {func_instrs[k].label : k \in {j \in Processed : func_instrs[j].kind = "Label"}}
    \cup UNION { {func_instrs[k].labels[j] : j \in 1..Len(func_instrs[k].labels)}
                 : k \in {j \in Processed : func_instrs[j].kind \in {"Branch", "Jump"}} }

\* C9: between items, each label seen so far, as a target or as a
\* declaration, has exactly one node, named Named(label); the Named nodes
\* are as many as the labels seen; get_index of a label returns that node
\* and a second call for the same label returns the same node and creates
\* none.
LabelResolution_C9 ==
    pc # "panic" =>
        /\ DOMAIN builder.label_to_block = LabelsSeen
        /\ \A l \in LabelsSeen :
              /\ builder.label_to_block[l] \in NamedNodes
              /\ nodes[builder.label_to_block[l]].name.label = l
        /\ Cardinality(NamedNodes) = Cardinality(LabelsSeen)
        /\ \A m, n \in NamedNodes : nodes[m].name = nodes[n].name => m = n
        /\ \A l \in Labels :
              LET r == get_index(builder, l)
                  again == get_index(r.builder, l)
              IN /\ again.index = r.index
                 /\ again.builder = r.builder
                 /\ l \in LabelsSeen =>
                       r.builder = builder /\ r.index = builder.label_to_block[l]

LabelResolution_C9_Witness ==
    /\ pc = "loop"
    /\ \E j, k \in Processed :
          /\ j < k
          /\ func_instrs[j].kind = "Jump"
          /\ func_instrs[k].kind = "Label"
          /\ func_instrs[j].labels[1] = func_instrs[k].label
          /\ current = builder.label_to_block[func_instrs[k].label]

-----------------------------------------------------------------------------
(* C10 *)

CondEdge(src, dst, arg, val, pos) ==
    [src |-> src, dst |-> dst,
     weight |-> [op |-> [tag |-> "Cond", arg |-> arg, val |-> val], pos |-> pos]]

\* C10: a conditional branch with one argument and two labels adds exactly
\* two edges from the current block, Cond{arg, true} to the node of the first
\* label and then Cond{arg, false} to the node of the second, both carrying
\* the branch's position; it adds no other edge and leaves the cursor alone.
ConditionalEdgePairing_C10 ==
    [][(BranchArm /\ pc' = "loop") =>
         LET t == builder'.label_to_block[inst.labels[1]]
             f == builder'.label_to_block[inst.labels[2]]
         IN /\ builder'.edges =
                  edges \o <<CondEdge(current, t, inst.args[1], TRUE, inst.pos),
                             CondEdge(current, f, inst.args[1], FALSE, inst.pos)>>
            /\ builder'.nodes[t].name = [tag |-> "Named", label |-> inst.labels[1]]
            /\ builder'.nodes[f].name = [tag |-> "Named", label |-> inst.labels[2]]
            /\ current' = current]_vars

ConditionalEdgePairing_C10_Witness ==
    /\ pc = "loop"
    /\ \E k \in Processed :
          /\ func_instrs[k].kind = "Branch"
          /\ func_instrs[k].labels[1] # func_instrs[k].labels[2]
          /\ Cardinality(EdgesAt(k)) = 2
          /\ current # builder.entry

-----------------------------------------------------------------------------
(* C11 *)

\* a branch without exactly one argument and two labels, a jump without
\* exactly one label, or a return with more than one argument
MalformedTerminator(item) ==
    \/ item.kind = "Branch" /\ ~(Len(item.args) = 1 /\ Len(item.labels) = 2)
    \/ item.kind = "Jump" /\ Len(item.labels) # 1
    \/ item.kind = "Return" /\ Len(item.args) > 1

AtTerminator == pc = "loop" /\ i <= Len(func_instrs) /\ IsTerminator(func_instrs[i])

\* C11: a malformed branch, jump or return aborts the construction at that
\* item, adding no node and no edge, and nothing runs after the abort; a
\* branch, jump or return of the right shape never aborts and the loop moves
\* on to the next item.
MalformedTerminatorsAbort_C11 ==
    [][/\ pc = "panic" => FALSE
       /\ AtTerminator =>
             IF MalformedTerminator(func_instrs[i])
             THEN pc' = "panic" /\ builder' = builder /\ i' = i
             ELSE pc' = "loop" /\ i' = i + 1]_vars

MalformedTerminatorsAbort_C11_Witness ==
    /\ pc = "panic"
    /\ i = MaxLen
    /\ func_instrs[i].kind = "Jump"
    /\ Len(func_instrs[i].labels) = 2
    /\ Len(edges) >= 2

-----------------------------------------------------------------------------
(* C12 *)

\* the number of edges a completed item has added
EdgesDue(item) ==
    IF item.kind = "Branch" THEN 2
    ELSE IF item.kind \in {"Jump", "Return"} THEN 1
    ELSE 0

\* C12: every completed branch has its two edges, also when both labels are
\* the same and the two edges join the same pair of nodes, and every
\* completed jump or return has its own edge, also when an earlier one has
\* the same target; a step never removes or changes an edge already there.
DuplicateTargetEdgesPreserved_C12 ==
    /\ [](pc # "panic" =>
            \A k \in Processed :
               IsTerminator(func_instrs[k]) =>
                  /\ Cardinality(EdgesAt(k)) = EdgesDue(func_instrs[k])
                  /\ (func_instrs[k].kind = "Branch"
                        /\ func_instrs[k].labels[1] = func_instrs[k].labels[2]) =>
                        \E e, f \in EdgesAt(k) :
                           /\ e # f
                           /\ edges[e].src = edges[f].src
                           /\ edges[e].dst = edges[f].dst
                           /\ edges[e].weight.op.val /\ ~edges[f].weight.op.val)
    /\ [][/\ Len(builder'.edges) >= Len(edges)
          /\ SubSeq(builder'.edges, 1, Len(edges)) = edges]_vars

DuplicateTargetEdgesPreserved_C12_Witness ==
    /\ pc = "loop"
    /\ \E j, k \in Processed :
          /\ j < k
          /\ func_instrs[j].kind = "Branch"
          /\ func_instrs[j].labels[1] = func_instrs[j].labels[2]
          /\ func_instrs[k].kind = "Jump"
          /\ func_instrs[k].labels[1] = func_instrs[j].labels[1]
          /\ Len(edges) = 3

-----------------------------------------------------------------------------
(* C13 *)

PlainNode(name, instrs, pos) == [instrs |-> instrs, name |-> name, pos |-> pos]
NamedOf(l) == [tag |-> "Named", label |-> l]
EdgeOf(src, dst, op, pos) == [src |-> src, dst |-> dst, weight |-> [op |-> op, pos |-> pos]]

\* C13: [jmp .L; .L: ; I; ret] yields exactly the nodes Entry, Exit and
\* Named(L), with instrs [I] on Named(L) and none on Entry and Exit, and
\* exactly the edges Entry --Jmp--> Named(L) and Named(L) --Jmp--> Exit: no
\* fallthrough edge and no seal edge.
ScenarioJumpToLabel_C13 ==
    (Returned /\ func_instrs = WithPos(JumpToLabelScenario)) =>
        /\ nodes = << PlainNode([tag |-> "Entry", label |-> ""], <<>>, <<>>),
                      PlainNode([tag |-> "Exit", label |-> ""], <<>>, <<>>),
                      PlainNode(NamedOf("L"), <<func_instrs[3]>>, <<2>>) >>
        /\ edges = << EdgeOf(1, 3, JmpOp, <<1>>),
                      EdgeOf(3, 2, JmpOp, <<4>>) >>
        /\ builder.entry = 1
        /\ builder.exit = 2

ScenarioJumpToLabel_C13_Witness ==
    /\ Returned
    /\ func_instrs = WithPos(JumpToLabelScenario)
    /\ Len(nodes) = 3

-----------------------------------------------------------------------------
(* C14 *)

\* C14: [br v .T .F; .T: ; ret v; .F: ; ret w] yields exactly the nodes
\* Entry, Exit, Named(T) and Named(F) and exactly four edges: the Cond pair
\* Entry --Cond{v,true}--> T and Entry --Cond{v,false}--> F, and the returns
\* T --RetVal{v}--> Exit and F --RetVal{w}--> Exit; no fallthrough T -> F.
ScenarioBranchToTwoReturns_C14 ==
    (Returned /\ func_instrs = WithPos(BranchToTwoReturnsScenario)) =>
        /\ nodes = << PlainNode([tag |-> "Entry", label |-> ""], <<>>, <<>>),
                      PlainNode([tag |-> "Exit", label |-> ""], <<>>, <<>>),
                      PlainNode(NamedOf("L"), <<>>, <<2>>),
                      PlainNode(NamedOf("Exit"), <<>>, <<4>>) >>
        /\ edges = << EdgeOf(1, 3, [tag |-> "Cond", arg |-> "v", val |-> TRUE], <<1>>),
                      EdgeOf(1, 4, [tag |-> "Cond", arg |-> "v", val |-> FALSE], <<1>>),
                      EdgeOf(3, 2, [tag |-> "RetVal", arg |-> "v", val |-> FALSE], <<3>>),
                      EdgeOf(4, 2, [tag |-> "RetVal", arg |-> "w", val |-> FALSE], <<5>>) >>
        /\ builder.entry = 1
        /\ builder.exit = 2

ScenarioBranchToTwoReturns_C14_Witness ==
    /\ Returned
    /\ func_instrs = WithPos(BranchToTwoReturnsScenario)
    /\ Len(edges) = 4

-----------------------------------------------------------------------------
(* C15 *)

\* each label is declared at most once
UniqueDecls ==
    \A j, k \in LabelDecls : func_instrs[j].label = func_instrs[k].label => j = k

\* the first label declaration after item k, or the end of the stream
NextLabelAfter(k) ==
    LET S == {j \in LabelDecls : j > k}
    IN IF S = {} THEN Len(func_instrs) + 1 ELSE CHOOSE j \in S : \A m \in S : j <= m

\* the ordinary instructions among items a..b, in order
OthersIn(a, b) == SelectSeq(SubSeq(func_instrs, a, b), LAMBDA x : x.kind = "Other")

DeclsOf(l) == {k \in LabelDecls : func_instrs[k].label = l}

\* what node n is to hold when every label is declared at most once
ExpectedInstrs(n) ==
    IF n = builder.entry
    THEN OthersIn(1, NextLabelAfter(0) - 1)
    ELSE IF nodes[n].name.tag = "Named" /\ DeclsOf(nodes[n].name.label) # {}
         THEN LET k == CHOOSE d \in DeclsOf(nodes[n].name.label) : TRUE
              IN OthersIn(k + 1, NextLabelAfter(k) - 1)
         ELSE <<>>

\* C15: when every label is declared at most once, the returned Cfg holds on
\* Entry the ordinary instructions before the first label declaration, on
\* each declared Named block those between its declaration and the next one
\* (those after a branch, jump or return too), nothing on Exit and on blocks
\* only referenced; every ordinary instruction sits in exactly one place.
InstructionPlacement_C15 ==
    (Returned /\ UniqueDecls) =>
        /\ \A n \in 1..Len(nodes) : nodes[n].instrs = ExpectedInstrs(n)
        /\ \A k \in KindAt({"Other"}) :
              Cardinality({ p \in (1..Len(nodes)) \X (1..Len(func_instrs)) :
                              /\ p[2] <= Len(nodes[p[1]].instrs)
                              /\ nodes[p[1]].instrs[p[2]] = func_instrs[k] }) = 1

InstructionPlacement_C15_Witness ==
    /\ Returned
    /\ UniqueDecls
    /\ \E k \in LabelDecls :
          /\ k + 2 <= Len(func_instrs)
          /\ IsTerminator(func_instrs[k + 1])
          /\ func_instrs[k + 2].kind = "Other"
          /\ nodes[builder.label_to_block[func_instrs[k].label]].instrs # <<>>

-----------------------------------------------------------------------------
(* C16 *)

\* the position of the last declaration of label l, absent when there is none
DeclaredPos(l) ==
    IF DeclsOf(l) = {}
    THEN <<>>
    ELSE <<CHOOSE k \in DeclsOf(l) : \A m \in DeclsOf(l) : m <= k>>

\* C16: in the returned Cfg Entry and Exit have no position, a declared
\* Named block has the position of its label declaration (the last one when
\* it is declared again), also when a forward reference created the node,
\* and a block only referenced has none; a branch, jump or return changes no
\* node's position and the nodes it creates have none.
NodePositions_C16 ==
    /\ [](Returned =>
            /\ nodes[builder.entry].pos = <<>>
            /\ nodes[builder.exit].pos = <<>>
            /\ \A n \in NamedNodes : nodes[n].pos = DeclaredPos(nodes[n].name.label))
    /\ [][AtTerminator =>
            \A n \in 1..Len(builder'.nodes) :
               builder'.nodes[n].pos = IF n <= Len(nodes) THEN nodes[n].pos ELSE <<>>]_vars

NodePositions_C16_Witness ==
    /\ Returned
    /\ \E j \in KindAt({"Jump", "Branch"}), k \in LabelDecls :
          /\ j < k
          /\ func_instrs[j].labels[1] = func_instrs[k].label
          /\ nodes[builder.label_to_block[func_instrs[k].label]].pos = <<k>>
    /\ \E n \in NamedNodes : nodes[n].pos = <<>>

-----------------------------------------------------------------------------
(* C17 *)

\* every branch, jump and return of the stream has the right shape
WellShapedStream ==
    \A k \in 1..Len(func_instrs) : ~MalformedTerminator(func_instrs[k])

\* C17 as stated: on a stream whose branches, jumps and returns are well
\* formed the pass never stalls before it returns the Cfg: it has either
\* returned, with every item consumed, or it can take its next step.
Termination_C17 ==
    WellShapedStream =>
        /\ pc = "done" \/ ENABLED Next
        /\ pc = "done" => i = Len(func_instrs) + 1

-----------------------------------------------------------------------------
(* C18 *)

PositionlessEdges == {e \in 1..Len(edges) : edges[e].weight.pos = <<>>}

\* C18: in the returned Cfg the edges into Exit are as many as the returns,
\* plus one when the stream has neither label nor branch, jump or return;
\* the position-less seal edge Entry -> Exit is there exactly in that case
\* and is the only position-less edge; Entry has an outgoing edge.
ExitInDegree_C18 ==
    Returned =>
        /\ Cardinality(EdgesInto(builder.exit))
              = Cardinality(Returns) + (IF PlainStream THEN 1 ELSE 0)
        /\ Sealed <=> PlainStream
        /\ \A e \in PositionlessEdges : edges[e] = SealEdge
        /\ Cardinality(PositionlessEdges) = (IF PlainStream THEN 1 ELSE 0)
        /\ EdgesOutOf(builder.entry) # {}

ExitInDegree_C18_Witness ==
    /\ Returned
    /\ LabelDecls # {}
    /\ Cardinality(Returns) = 2
    /\ Cardinality(EdgesInto(builder.exit)) = 2
    /\ ~Sealed

-----------------------------------------------------------------------------
(* C19 *)

\* C19: in every state no edge ends at Entry and none starts at Exit, the
\* cursor is never on Exit, and Exit holds no instruction.
EntrySourceExitSink_C19 ==
    /\ \A e \in 1..Len(edges) :
          edges[e].dst # builder.entry /\ edges[e].src # builder.exit
    /\ current # builder.exit
    /\ nodes[builder.exit].instrs = <<>>

EntrySourceExitSink_C19_Witness ==
    /\ Returned
    /\ "Exit" \in DOMAIN builder.label_to_block
    /\ current = builder.label_to_block["Exit"]
    /\ nodes[current].instrs # <<>>
    /\ EdgesOutOf(current) # {}

-----------------------------------------------------------------------------
(* C20 *)

AtItem == pc = "loop" /\ i <= Len(func_instrs)

\* C20: an ordinary instruction is appended to the pending block and the
\* graph, the label map, the cursor and had_branch stay as they are; a
\* branch, jump or return leaves the cursor, the pending block and the
\* instrs of every node as they are, and the nodes it creates hold no
\* instruction; a return creates no node and leaves the label map alone.
FrameOfNonLabelItems_C20 ==
    [][AtItem =>
         /\ func_instrs[i].kind = "Other" =>
               /\ block' = Append(block, func_instrs[i])
               /\ builder' = builder
               /\ current' = current
               /\ had_branch' = had_branch
         /\ IsTerminator(func_instrs[i]) =>
               /\ current' = current
               /\ block' = block
               /\ \A n \in 1..Len(builder'.nodes) :
                     builder'.nodes[n].instrs =
                        IF n <= Len(nodes) THEN nodes[n].instrs ELSE <<>>
         /\ func_instrs[i].kind = "Return" =>
               /\ builder'.nodes = nodes
               /\ builder'.label_to_block = builder.label_to_block]_vars

FrameOfNonLabelItems_C20_Witness ==
    /\ pc = "loop"
    /\ had_branch
    /\ block # <<>>
    /\ \E k \in Processed :
          /\ k + 1 \in Processed
          /\ func_instrs[k].kind = "Return"
          /\ func_instrs[k + 1].kind = "Other"

====
